---- MODULE Spec2Model ----
(***************************************************************************)
(* Model of the two utilities of the repository:                           *)
(*   - scripts/test_docs.py : DocsValidator (validate_all and its seven    *)
(*     checks, print_report, main)                                         *)
(*   - src/data_processor.py: DataProcessor (clean_data, filter_data,      *)
(*     calculate_statistics)                                               *)
(* The two components share no state; each has its own specification       *)
(* (SpecDocs, SpecData) over the same variable tuple.                      *)
(***************************************************************************)
EXTENDS Integers, Sequences, FiniteSets, TLC

VARIABLES
    \* ---- environment read by DocsValidator (mkdocs.yml, docs directory)
    nav,        \* the 'nav' tree of mkdocs.yml
    fs,         \* the manifest paths that exist under docs_dir
    files,      \* the markdown files docs_dir.rglob("*.md") yields, in order
    api,        \* state of docs/api and docs/api/data_processor.md
    ioFault,    \* per check: which of its file reads raises (0 = none)
    \* ---- DocsValidator instance and its caller
    errors,     \* self.errors
    warnings,   \* self.warnings
    success,    \* local 'success' of validate_all
    pc,         \* position of the caller of validate_all
    checkIdx,   \* position of the loop 'for check in checks'
    calls,      \* number of validate_all invocations on this instance
    trace,      \* what each check of the current invocation did, in order
    before,     \* errors and warnings when the current invocation began
    result,     \* value returned by the last validate_all
    report,     \* what print_report printed
    exitStatus, \* argument of sys.exit in main
    \* ---- DataProcessor instance and its caller
    data,       \* self.data
    lastCall    \* the last DataProcessor call: arguments, table before, outcome

vars == <<nav, fs, files, api, ioFault, errors, warnings, success, pc,
          checkIdx, calls, trace, before, result, report, exitStatus, data, lastCall>>

docsVars == <<nav, fs, files, api, ioFault, errors, warnings, success, pc,
              checkIdx, calls, trace, before, result, report, exitStatus>>

dataVars == <<data, lastCall>>

envVars == <<nav, fs, files, api, ioFault>>

(***************************************************************************)
(* Bounds                                                                  *)
(***************************************************************************)
MaxNavLen == 2        \* top-level entries of the manifest
MaxChildren == 2      \* children of a nested manifest entry
MaxHeadings == 3      \* headings of a markdown file
MaxFiles == 2         \* markdown files in the docs directory
MaxCalls == 2         \* validate_all invocations on one instance
MaxRows == 2          \* rows of a table
MaxConds == 2         \* conditions of a filter_data call

(***************************************************************************)
(* Generic helpers                                                         *)
(***************************************************************************)
SeqsUpTo(S, n) == UNION {[1..k -> S] : k \in 0..n}

RECURSIVE Concat(_)
Concat(ss) == IF ss = <<>> THEN <<>> ELSE Head(ss) \o Concat(Tail(ss))

IsPrefix(s, t) == Len(s) <= Len(t) /\ SubSeq(t, 1, Len(s)) = s

(***************************************************************************)
(* DocsValidator: the checks                                               *)
(***************************************************************************)
CheckNames == <<"check_files_exist", "validate_internal_links",
                "validate_code_blocks", "validate_api_docs",
                "validate_navigation", "check_image_references",
                "validate_markdown">>

NumChecks == Len(CheckNames)

Err(msg, where, what) == [msg |-> msg, where |-> where, what |-> what]

\* What one invocation of a check does: the strings it appends, and either
\* the value it returns or the exception it raises.
Outcome(ret, raised, errs, warns) ==
    [ret |-> ret, raised |-> raised, errs |-> errs, warns |-> warns]

NoErrs == [ok |-> TRUE, errs |-> <<>>]

RECURSIVE check_nav_items(_)
RECURSIVE check_nav_entries(_)
\* check_nav_entries without the recursion into nested lists
check_nav_entries_flat(entries) ==
    IF entries = <<>> THEN NoErrs
    ELSE LET e == Head(entries)
             r1 == IF e.content.kind # "list" /\ e.content.path \notin fs
                   THEN [ok |-> FALSE,
                         errs |-> <<Err("Missing file", "docs", e.content.path)>>]
                   ELSE NoErrs
             r2 == check_nav_entries(Tail(entries))
         IN [ok |-> r1.ok /\ r2.ok, errs |-> r1.errs \o r2.errs]

check_nav_entries(entries) ==
    IF entries = <<>> THEN NoErrs
    ELSE LET e == Head(entries)
             r1 == IF e.content.kind = "list"
                   THEN check_nav_items(e.content.items)
                   ELSE IF e.content.path \notin fs
                        THEN [ok |-> FALSE,
                              errs |-> <<Err("Missing file", "docs", e.content.path)>>]
                        ELSE NoErrs
             r2 == check_nav_entries(Tail(entries))
         IN [ok |-> r1.ok /\ r2.ok, errs |-> r1.errs \o r2.errs]

check_nav_items(items) ==
    IF items = <<>> THEN NoErrs
    ELSE LET item == Head(items)
             r1 == IF item.kind = "dict" THEN check_nav_entries(item.entries)
                   ELSE NoErrs
             r2 == check_nav_items(Tail(items))
         IN [ok |-> r1.ok /\ r2.ok, errs |-> r1.errs \o r2.errs]

check_files_exist ==
    IF ioFault["check_files_exist"] = 1
    THEN Outcome(FALSE, TRUE, <<>>, <<>>)
    ELSE LET r == check_nav_items(nav)
         IN Outcome(r.ok, FALSE, r.errs, <<>>)

\* The loop 'for md_file in self.docs_dir.rglob("*.md")' of a check: the
\* files are read in order, the read of file number ioFault[name] raises,
\* and per[i] is what the loop body does for file number i once it is read.
ScanFiles(name, per) ==
    LET k == ioFault[name]
        raised == k \in 1..Len(files)
        n == IF raised THEN k - 1 ELSE Len(files)
        errs == Concat([i \in 1..n |-> per[i].errs])
        warns == Concat([i \in 1..n |-> per[i].warns])
    IN Outcome(~raised /\ \A i \in 1..n : per[i].ok, raised, errs, warns)

\* What the loop body does for one file: whether it leaves 'success' alone
\* (ok) and what it appends.
Appended(ok, errs, warns) == [ok |-> ok, errs |-> errs, warns |-> warns]

RECURSIVE broken_links(_, _)
broken_links(md, links) ==
    IF links = <<>> THEN <<>>
    ELSE LET link == Head(links)
             here == IF ~link.external /\ link.path # "" /\ ~link.exists
                     THEN <<Err("Broken internal link", md.name, link.path)>>
                     ELSE <<>>
         IN here \o broken_links(md, Tail(links))

internal_links_of(md) ==
    LET errs == broken_links(md, md.links) IN Appended(errs = <<>>, errs, <<>>)

validate_internal_links ==
    ScanFiles("validate_internal_links",
              [i \in 1..Len(files) |-> internal_links_of(files[i])])

RECURSIVE bad_blocks(_, _)
bad_blocks(md, blocks) ==
    IF blocks = <<>> THEN <<>>
    ELSE LET b == Head(blocks)
             here == IF b.lang = "python" /\ ~b.compiles
                     THEN <<Err("Invalid Python syntax", md.name, "SyntaxError")>>
                     ELSE <<>>
         IN here \o bad_blocks(md, Tail(blocks))

code_blocks_of(md) ==
    LET errs == bad_blocks(md, md.blocks) IN Appended(errs = <<>>, errs, <<>>)

validate_code_blocks ==
    ScanFiles("validate_code_blocks",
              [i \in 1..Len(files) |-> code_blocks_of(files[i])])

RequiredSections == <<"Class Documentation", "Methods", "Examples">>

RECURSIVE missing_sections(_)
missing_sections(sections) ==
    IF sections = <<>> THEN <<>>
    ELSE (IF Head(sections) \notin api.sections
          THEN <<Err("Missing section in API docs", "", Head(sections))>>
          ELSE <<>>) \o missing_sections(Tail(sections))

validate_api_docs ==
    IF ~api.dir
    THEN Outcome(FALSE, FALSE,
                 <<Err("Missing API documentation directory", "", "")>>, <<>>)
    ELSE IF ~api.doc
    THEN Outcome(FALSE, FALSE,
                 <<Err("Missing DataProcessor API documentation", "", "")>>, <<>>)
    ELSE IF ioFault["validate_api_docs"] = 1
    THEN Outcome(FALSE, TRUE, <<>>, <<>>)
    ELSE LET errs == missing_sections(RequiredSections)
         IN Outcome(errs = <<>>, FALSE, errs, <<>>)

RECURSIVE validate_nav_item(_)
RECURSIVE validate_nav_entries(_)
RECURSIVE validate_nav_children(_)
validate_nav_children(children) ==
    IF children = <<>> THEN NoErrs
    ELSE LET r1 == validate_nav_item(Head(children))
             r2 == validate_nav_children(Tail(children))
         IN [ok |-> r1.ok /\ r2.ok, errs |-> r1.errs \o r2.errs]

validate_nav_entries(entries) ==
    IF entries = <<>> THEN NoErrs
    ELSE LET e == Head(entries)
             r0 == IF ~e.title.text
                   THEN [ok |-> FALSE,
                         errs |-> <<Err("Invalid navigation title", "", e.title.name)>>]
                   ELSE NoErrs
             r1 == IF e.content.kind = "list"
                   THEN validate_nav_children(e.content.items)
                   ELSE NoErrs
             r2 == validate_nav_entries(Tail(entries))
         IN [ok |-> r0.ok /\ r1.ok /\ r2.ok,
             errs |-> r0.errs \o r1.errs \o r2.errs]

validate_nav_item(item) ==
    IF item.kind = "dict" THEN validate_nav_entries(item.entries) ELSE NoErrs

\* all(validate_nav_item(item) for item in nav): the generator is consumed
\* up to and including the first item whose validation returns False.
RECURSIVE all_nav_items(_)
all_nav_items(items) ==
    IF items = <<>> THEN NoErrs
    ELSE LET r1 == validate_nav_item(Head(items))
         IN IF ~r1.ok THEN r1
            ELSE LET r2 == all_nav_items(Tail(items))
                 IN [ok |-> r2.ok, errs |-> r1.errs \o r2.errs]

validate_navigation ==
    IF ioFault["validate_navigation"] = 1
    THEN Outcome(FALSE, TRUE, <<>>, <<>>)
    ELSE LET r == all_nav_items(nav)
         IN Outcome(r.ok, FALSE, r.errs, <<>>)

RECURSIVE missing_images(_, _)
missing_images(md, images) ==
    IF images = <<>> THEN <<>>
    ELSE LET img == Head(images)
             here == IF ~img.external /\ ~img.exists
                     THEN <<Err("Missing image", md.name, img.path)>>
                     ELSE <<>>
         IN here \o missing_images(md, Tail(images))

image_references_of(md) ==
    LET errs == missing_images(md, md.images) IN Appended(errs = <<>>, errs, <<>>)

check_image_references ==
    ScanFiles("check_image_references",
              [i \in 1..Len(files) |-> image_references_of(files[i])])

\* current_level before the first heading of a file
InitialLevel == 0

\* The loop over the headings of one file: heading number i is compared
\* with current_level, the level of the heading before it.  A heading is
\* named in the warning by its title, which stands here for its position.
RECURSIVE heading_warnings(_, _, _)
\* heading_warnings with 'level - current_level >= 1'
heading_warnings_any_increase(md, i, current_level) ==
    IF i > Len(md.headings) THEN <<>>
    ELSE LET level == md.headings[i]
             here == IF level - current_level >= 1
                     THEN <<Err("Skipped heading level", md.name, i)>>
                     ELSE <<>>
         IN here \o heading_warnings(md, i + 1, level)

heading_warnings(md, i, current_level) ==
    IF i > Len(md.headings) THEN <<>>
    ELSE LET level == md.headings[i]
             here == IF level - current_level > 1
                     THEN <<Err("Skipped heading level", md.name, i)>>
                     ELSE <<>>
         IN here \o heading_warnings(md, i + 1, level)

\* markdown_of where a skipped heading level also sets success = False
markdown_of_strict(md) ==
    Appended(md.renders /\ heading_warnings(md, 1, InitialLevel) = <<>>,
             IF md.renders THEN <<>>
             ELSE <<Err("Invalid markdown", md.name, "Exception")>>,
             heading_warnings(md, 1, InitialLevel))

markdown_of(md) ==
    Appended(md.renders,
             IF md.renders THEN <<>>
             ELSE <<Err("Invalid markdown", md.name, "Exception")>>,
             heading_warnings(md, 1, InitialLevel))

\* validate_markdown returns False only for a rendering error.
validate_markdown ==
    ScanFiles("validate_markdown",
              [i \in 1..Len(files) |-> markdown_of(files[i])])

(***************************************************************************)
(* DocsValidator: validate_all, print_report, main                         *)
(***************************************************************************)
\* AfterCheck where an exception ends the loop
AfterCheckBreak(i, o) == IF o.raised THEN NumChecks + 1 ELSE i + 1

\* Where the loop of validate_all goes after check number i: to the next
\* check, whatever the check returned or raised.
AfterCheck(i, o) == i + 1

\* One iteration of 'for check in checks', with its try/except, for the
\* check at position i whose invocation does o.
Iterate(i, o) ==
    /\ pc = "loop"
    /\ checkIdx = i
    /\ errors' = errors \o o.errs \o
                 (IF o.raised
                  THEN <<Err("Error in", CheckNames[i], "Exception")>>
                  ELSE <<>>)
    /\ warnings' = warnings \o o.warns
    /\ success' = IF o.raised \/ ~o.ret THEN FALSE ELSE success
    /\ trace' = Append(trace, [name |-> CheckNames[i], ret |-> o.ret,
                               raised |-> o.raised, errs |-> o.errs,
                               warns |-> o.warns])
    /\ checkIdx' = AfterCheck(i, o)

\* The caller invokes validate_all: success = True, then the loop starts.
ValidateAll ==
    /\ pc \in {"constructed", "returned"}
    /\ calls < MaxCalls
    /\ calls' = calls + 1
    /\ success' = TRUE
    /\ trace' = <<>>
    /\ before' = [errors |-> errors, warnings |-> warnings]
    /\ pc' = "loop"
    /\ checkIdx' = 1
    /\ UNCHANGED <<envVars, errors, warnings, result, report, exitStatus,
                   dataVars>>

loopFrame == <<envVars, pc, calls, before, result, report, exitStatus, dataVars>>

RunCheckFilesExist ==
    /\ Iterate(1, check_files_exist)
    /\ UNCHANGED loopFrame

RunValidateInternalLinks ==
    /\ Iterate(2, validate_internal_links)
    /\ UNCHANGED loopFrame

RunValidateCodeBlocks ==
    /\ Iterate(3, validate_code_blocks)
    /\ UNCHANGED loopFrame

RunValidateApiDocs ==
    /\ Iterate(4, validate_api_docs)
    /\ UNCHANGED loopFrame

RunValidateNavigation ==
    /\ Iterate(5, validate_navigation)
    /\ UNCHANGED loopFrame

RunCheckImageReferences ==
    /\ Iterate(6, check_image_references)
    /\ UNCHANGED loopFrame

RunValidateMarkdown ==
    /\ Iterate(7, validate_markdown)
    /\ UNCHANGED loopFrame

\* return success
ValidateAllReturn ==
    /\ pc = "loop"
    /\ checkIdx > NumChecks
    /\ result' = success
    /\ pc' = "returned"
    /\ UNCHANGED <<envVars, errors, warnings, success, checkIdx, calls, trace, before,
                   report, exitStatus, dataVars>>

print_report ==
    [errorTable |-> errors # <<>>,
     warningTable |-> warnings # <<>>,
     allPassed |-> errors = <<>> /\ warnings = <<>>]

\* main after its single validate_all on a fresh validator:
\* print_report, then sys.exit(0 if success else 1).
MainExit ==
    /\ pc = "returned"
    /\ calls = 1
    /\ report' = print_report
    /\ exitStatus' = IF result THEN 0 ELSE 1
    /\ pc' = "exited"
    /\ UNCHANGED <<envVars, errors, warnings, success, checkIdx, calls, trace, before,
                   result, dataVars>>

(***************************************************************************)
(* The documentation trees the validator is run on                         *)
(***************************************************************************)
TextKey == [text |-> TRUE, name |-> "Home"]

NumberKey == [text |-> FALSE, name |-> "1"]

Keys == {TextKey, NumberKey}

Paths == {"a.md", "b.md"}

PathContent(p) == [kind |-> "path", path |-> p]

ListContent(items) == [kind |-> "list", items |-> items]

Entry(k, c) == [title |-> k, content |-> c]

Dict(entries) == [kind |-> "dict", entries |-> entries]

\* a nav item that is a plain string, not a mapping
StrItem(p) == [kind |-> "str", path |-> p]

Leaf(k, p) == Dict(<<Entry(k, PathContent(p))>>)

Section(k, items) == Dict(<<Entry(k, ListContent(items))>>)

\* manifests that vary keys (ks) and paths (ps): flat lists of leaves, one
\* section (with leaves and sub-sections as children) next to a leaf, and
\* two small sections
Leaves(ks, ps) == {Leaf(k, p) : k \in ks, p \in ps}

Items0(ks, ps) == Leaves(ks, ps) \cup {StrItem("a.md")}

SubSections(ks, ps) == {Section(k, <<l>>) : k \in ks, l \in Leaves(ks, ps)}

Sections(ks, ps) ==
    {Section(k, c) :
        k \in ks,
        c \in SeqsUpTo(Items0(ks, ps) \cup SubSections(ks, ps), MaxChildren)}

SmallSections(ks, ps) ==
    {Section(k, c) : k \in ks, c \in SeqsUpTo(Items0(ks, ps), 1)}

NavsOf(ks, ps) ==
    SeqsUpTo(Items0(ks, ps), MaxNavLen)
    \cup {<<x>> : x \in Sections(ks, ps)}
    \cup {<<x, l>> : x \in Sections(ks, ps), l \in Items0(ks, ps)}
    \cup {<<l, x>> : x \in Sections(ks, ps), l \in Items0(ks, ps)}
    \cup {<<x, y>> : x \in SmallSections(ks, ps), y \in SmallSections(ks, ps)}

FileNames == <<"f1.md", "f2.md", "f3.md", "f4.md">>

MaxHeadingLevel == 6

HeadingLevels == 1..MaxHeadingLevel

MdFile(name, links, blocks, images, headings, renders) ==
    [name |-> name, links |-> links, blocks |-> blocks, images |-> images,
     headings |-> headings, renders |-> renders]

PlainFile(name, headings) == MdFile(name, <<>>, <<>>, <<>>, headings, TRUE)

Links == {[external |-> TRUE, path |-> "http://x", exists |-> FALSE],
          [external |-> FALSE, path |-> "", exists |-> FALSE],
          [external |-> FALSE, path |-> "a.md", exists |-> TRUE],
          [external |-> FALSE, path |-> "gone.md", exists |-> FALSE]}

Blocks == {[lang |-> "python", compiles |-> TRUE],
           [lang |-> "python", compiles |-> FALSE],
           [lang |-> "bash", compiles |-> FALSE]}

Images == {[external |-> TRUE, path |-> "http://x/i.png", exists |-> FALSE],
           [external |-> FALSE, path |-> "i.png", exists |-> TRUE],
           [external |-> FALSE, path |-> "gone.png", exists |-> FALSE]}

CompleteApi == [dir |-> TRUE, doc |-> TRUE,
                sections |-> {RequiredSections[i] : i \in 1..Len(RequiredSections)}]

Apis == {[dir |-> FALSE, doc |-> FALSE, sections |-> {}],
         [dir |-> TRUE, doc |-> FALSE, sections |-> {}]}
        \cup {[dir |-> TRUE, doc |-> TRUE, sections |-> s] :
                s \in SUBSET CompleteApi.sections}

FaultFree == [c \in {CheckNames[i] : i \in 1..NumChecks} |-> 0]

\* the checks that read one file only (mkdocs.yml, data_processor.md)
SingleRead == {"check_files_exist", "validate_api_docs", "validate_navigation"}

\* any read of any check may raise
Faults ==
    {io \in [{CheckNames[i] : i \in 1..NumChecks} -> 0..MaxFiles] :
        \A c \in SingleRead : io[c] <= 1}

Env(n, f, fl, a, io) == [nav |-> n, fs |-> f, files |-> fl, api |-> a, ioFault |-> io]

OneFile == <<PlainFile(FileNames[1], <<1, 2>>)>>

\* manifests with textual and non-textual titles
KeyEnvs == {Env(n, Paths, OneFile, CompleteApi, FaultFree) : n \in NavsOf(Keys, {"a.md"})}

\* manifests with present and missing files
PathEnvs == {Env(n, f, OneFile, CompleteApi, FaultFree) :
               n \in NavsOf({TextKey}, Paths), f \in SUBSET Paths}

\* one markdown file with every heading sequence, and several files with
\* at most one heading each
HeadingEnvs ==
    {Env(<<>>, Paths, <<PlainFile(FileNames[1], h)>>, CompleteApi, FaultFree) :
        h \in SeqsUpTo(HeadingLevels, MaxHeadings)}
    \cup {Env(<<>>, Paths, [i \in 1..MaxFiles |-> PlainFile(FileNames[i], hs[i])],
              CompleteApi, FaultFree) :
            hs \in [1..MaxFiles -> SeqsUpTo(HeadingLevels, 1)]}

\* one markdown file with links, code blocks, images and rendering failures
ContentEnvs ==
    {Env(<<Leaf(TextKey, "a.md")>>, Paths,
         <<MdFile(FileNames[1], l, b, i, <<1, 3>>, r)>>, a, FaultFree) :
        l \in SeqsUpTo(Links, 1), b \in SeqsUpTo(Blocks, 1),
        i \in SeqsUpTo(Images, 1), r \in BOOLEAN, a \in {CompleteApi}}
    \cup {Env(<<>>, Paths, OneFile, a, FaultFree) : a \in Apis}

BrokenFiles ==
    [i \in 1..MaxFiles |->
        MdFile(FileNames[i],
               <<CHOOSE l \in Links : ~l.external /\ l.path # "" /\ ~l.exists>>,
               <<>>, <<>>, <<2>>, i # 1)]

\* read failures in every combination of checks, on a clean tree and on a
\* tree with a bad title, a missing file and a broken link per file
FaultEnvs ==
    {Env(n.nav, {"a.md"}, n.files, CompleteApi, io) :
        n \in {[nav |-> <<>>, files |-> OneFile],
               [nav |-> <<Leaf(NumberKey, "b.md"), Leaf(TextKey, "a.md")>>,
                files |-> BrokenFiles]},
        io \in Faults}

DocsEnvs == KeyEnvs \cup PathEnvs \cup HeadingEnvs \cup ContentEnvs \cup FaultEnvs

NoReport == [errorTable |-> FALSE, warningTable |-> FALSE, allPassed |-> FALSE]

EmptyTable == [cols |-> <<>>, rows |-> <<>>]

NoCall == [op |-> "none"]

\* DocsValidator.__init__ on some documentation tree
InitDocs ==
    /\ \E e \in DocsEnvs :
          /\ nav = e.nav
          /\ fs = e.fs
          /\ files = e.files
          /\ api = e.api
          /\ ioFault = e.ioFault
    /\ errors = <<>>
    /\ warnings = <<>>
    /\ success = TRUE
    /\ pc = "constructed"
    /\ checkIdx = 1
    /\ calls = 0
    /\ trace = <<>>
    /\ before = [errors |-> <<>>, warnings |-> <<>>]
    /\ result = TRUE
    /\ report = NoReport
    /\ exitStatus = -1
    /\ data = EmptyTable
    /\ lastCall = NoCall

NextDocs ==
    \/ ValidateAll
    \/ RunCheckFilesExist
    \/ RunValidateInternalLinks
    \/ RunValidateCodeBlocks
    \/ RunValidateApiDocs
    \/ RunValidateNavigation
    \/ RunCheckImageReferences
    \/ RunValidateMarkdown
    \/ ValidateAllReturn
    \/ MainExit

SpecDocs == InitDocs /\ [][NextDocs]_vars

(***************************************************************************)
(* DataProcessor                                                           *)
(***************************************************************************)
\* A table has an ordered list of column names and an ordered list of rows;
\* a row maps every column to a cell; a cell is a number or missing (NaN).
NA == [na |-> TRUE, v |-> 0]

Num(n) == [na |-> FALSE, v |-> n]

ColumnsOf(t) == {t.cols[i] : i \in 1..Len(t.cols)}

Table(cols, rows) == [cols |-> cols, rows |-> rows]

HasMissing(row) == \E c \in DOMAIN row : row[c].na

\* DataFrame.dropna(): the rows without a missing value, in order
dropna(t) == Table(t.cols, SelectSeq(t.rows, LAMBDA r : ~HasMissing(r)))

\* DataFrame.drop_duplicates(): the first occurrence of every row, in order
RECURSIVE first_occurrences(_, _)
first_occurrences(rows, seen) ==
    IF rows = <<>> THEN <<>>
    ELSE IF Head(rows) \in seen THEN first_occurrences(Tail(rows), seen)
    ELSE <<Head(rows)>> \o first_occurrences(Tail(rows), seen \cup {Head(rows)})

drop_duplicates(t) == Table(t.cols, first_occurrences(t.rows, {}))

\* clean_data where the result of drop_duplicates is not assigned
clean_data_dropna_only(t) == dropna(t)

clean_data(t) == drop_duplicates(dropna(t))

\* Series == value, Series > value, Series < value on one cell: a
\* comparison with a missing value is False
CellEquals(cell, value) == ~cell.na /\ cell.v = value

\* CellGreater with >= for >
CellGreaterOrEqual(cell, value) == ~cell.na /\ cell.v >= value

CellGreater(cell, value) == ~cell.na /\ cell.v > value

CellLess(cell, value) == ~cell.na /\ cell.v < value

\* the boolean mask filtered_data[column] <operator> value, on one cell
Compare(cell, operator, value) ==
    CASE operator = "equals" -> CellEquals(cell, value)
      [] operator = "greater_than" -> CellGreater(cell, value)
      [] operator = "less_than" -> CellLess(cell, value)

\* filtered_data[filtered_data[column] <operator> value]
Select(t, column, operator, value) ==
    Table(t.cols, SelectSeq(t.rows, LAMBDA r : Compare(r[column], operator, value)))

\* identity of the DataFrame objects of one filter_data call: self.data is
\* object SelfId, every DataFrame created during the call is a new object
SelfId == 0

\* Copy that hands back the object itself
CopyAlias(id) == id

Copy(id) == id + 1

Ok(t, id) == [status |-> "ok", table |-> t, id |-> id]

Raise(exc) == [status |-> exc]

\* the body of 'for column, operator, value in conditions' and the return
RECURSIVE filter_loop(_, _, _)
filter_loop(filtered_data, id, conditions) ==
    IF conditions = <<>> THEN Ok(filtered_data, id)
    ELSE LET c == Head(conditions)
             KnownOp == c.operator \in {"equals", "greater_than", "less_than"}
         IN IF ~KnownOp THEN Raise("ValueError")
            ELSE IF c.column \notin ColumnsOf(filtered_data) THEN Raise("KeyError")
            ELSE IF c.operator = "equals"
            THEN filter_loop(Select(filtered_data, c.column, "equals", c.value),
                             id + 1, Tail(conditions))
            ELSE IF c.operator = "greater_than"
            THEN filter_loop(Select(filtered_data, c.column, "greater_than", c.value),
                             id + 1, Tail(conditions))
            ELSE filter_loop(Select(filtered_data, c.column, "less_than", c.value),
                             id + 1, Tail(conditions))

filter_data(t, conditions) == filter_loop(t, Copy(SelfId), conditions)

RECURSIVE SumOf(_)
SumOf(s) == IF s = <<>> THEN 0 ELSE Head(s) + SumOf(Tail(s))

\* mean, min and max skip missing values; the mean is kept as sum and count
calculate_statistics(t, column) ==
    IF column \notin ColumnsOf(t) THEN Raise("ValueError")
    ELSE LET present == SelectSeq([i \in 1..Len(t.rows) |-> t.rows[i][column]],
                                  LAMBDA c : ~c.na)
             vals == [i \in 1..Len(present) |-> present[i].v]
             set == {vals[i] : i \in 1..Len(vals)}
         IN [status |-> "ok",
             count |-> Len(vals),
             sum |-> SumOf(vals),
             min |-> IF set = {} THEN NA
                     ELSE Num(CHOOSE m \in set : \A x \in set : m <= x),
             max |-> IF set = {} THEN NA
                     ELSE Num(CHOOSE m \in set : \A x \in set : m >= x)]

\* The caller makes one call at a time and then drops what it returned.
CleanData ==
    /\ lastCall = NoCall
    /\ data' = clean_data(data)
    /\ lastCall' = [op |-> "clean_data", before |-> data]
    /\ UNCHANGED docsVars

Operators == {"equals", "greater_than", "less_than", "invalid_operator"}

ColumnNames == {"value", "category"}

\* the value the conditions compare with
CondValue == 2

\* cells of a column: 'value' has cells below, at and above CondValue,
\* 'category' has cells equal to it; both have missing cells
CellsOf(column) ==
    IF column = "value"
    THEN {NA} \cup {Num(n) : n \in (CondValue - 1)..(CondValue + 1)}
    ELSE {NA, Num(CondValue)}

Conditions ==
    {[column |-> c, operator |-> o, value |-> CondValue] :
        c \in ColumnNames, o \in Operators}

FilterData ==
    \E conditions \in SeqsUpTo(Conditions, MaxConds) :
        /\ lastCall = NoCall
        /\ lastCall' = [op |-> "filter_data", before |-> data,
                        conditions |-> conditions,
                        out |-> filter_data(data, conditions)]
        /\ UNCHANGED <<data, docsVars>>

CalculateStatistics ==
    \E column \in ColumnNames :
        /\ lastCall = NoCall
        /\ lastCall' = [op |-> "calculate_statistics", before |-> data,
                        column |-> column,
                        out |-> calculate_statistics(data, column)]
        /\ UNCHANGED <<data, docsVars>>

Discard ==
    /\ lastCall # NoCall
    /\ lastCall' = NoCall
    /\ UNCHANGED <<data, docsVars>>

RowsOver(cols) ==
    {r \in [{cols[i] : i \in 1..Len(cols)} -> CellsOf("value")] :
        \A i \in 1..Len(cols) : r[cols[i]] \in CellsOf(cols[i])}

TablesOver(cols) ==
    {Table(cols, rows) : rows \in SeqsUpTo(RowsOver(cols), MaxRows)}

Tables == TablesOver(<<"value">>) \cup TablesOver(<<"value", "category">>)

\* DataProcessor(data) on some table; DataProcessor() has an empty one.
\* A table with the 'value' column only has no column 'category'.
InitData ==
    /\ data \in Tables \cup {EmptyTable}
    /\ lastCall = NoCall
    /\ nav = <<>>
    /\ fs = {}
    /\ files = <<>>
    /\ api = CompleteApi
    /\ ioFault = FaultFree
    /\ errors = <<>>
    /\ warnings = <<>>
    /\ success = TRUE
    /\ pc = "constructed"
    /\ checkIdx = 1
    /\ calls = 0
    /\ trace = <<>>
    /\ before = [errors |-> <<>>, warnings |-> <<>>]
    /\ result = TRUE
    /\ report = NoReport
    /\ exitStatus = -1

NextData ==
    \/ CleanData
    \/ FilterData
    \/ CalculateStatistics
    \/ Discard

SpecData == InitData /\ [][NextData]_vars

(***************************************************************************)
(* Properties of DocsValidator                                             *)
(***************************************************************************)
CountIf(s, P(_)) == Cardinality({i \in 1..Len(s) : P(s[i])})

Returned == pc \in {"returned", "exited"}

\* the entries appended since the current invocation began
ThisCallErrors == SubSeq(errors, Len(before.errors) + 1, Len(errors))

ThisCallWarnings == SubSeq(warnings, Len(before.warnings) + 1, Len(warnings))

Ran(i) == Len(trace) >= i /\ ~trace[i].raised

\* C1: validate_all invokes the seven checks once each, in the fixed order,
\* whatever earlier checks returned or raised; every raised exception is
\* turned into exactly one "Error in <check>" entry and makes validate_all
\* return False.
C1_AllChecksRunInOrder ==
    /\ pc = "loop" =>
          /\ checkIdx \in 1..(NumChecks + 1)
          /\ Len(trace) = checkIdx - 1
    /\ Returned => Len(trace) = NumChecks
    /\ pc # "constructed" =>
          /\ \A j \in 1..Len(trace) : trace[j].name = CheckNames[j]
          /\ \A j \in 1..NumChecks :
                LET IsErrorIn(e) == e.msg = "Error in" /\ e.where = CheckNames[j]
                IN CountIf(ThisCallErrors, IsErrorIn) =
                      IF j <= Len(trace) /\ trace[j].raised THEN 1 ELSE 0
          /\ (\E j \in 1..Len(trace) : trace[j].raised) => ~success
    /\ Returned /\ (\E j \in 1..NumChecks : trace[j].raised) => result = FALSE

\* a check raised, the next one returned False, and the later ones still ran
C1_Witness ==
    /\ pc = "returned"
    /\ Len(trace) = NumChecks
    /\ trace[1].raised
    /\ ~trace[2].raised /\ ~trace[2].ret
    /\ trace[5].raised
    /\ ~trace[7].raised

\* C2: the report is reset at each validate_all invocation (after a call
\* errors and warnings hold only what that call appended), and is
\* append-only within a call.
C2_ReportResetEachCall ==
    /\ pc = "returned" => errors = ThisCallErrors /\ warnings = ThisCallWarnings
    /\ pc = "loop" =>
          /\ IsPrefix(before.errors, errors)
          /\ IsPrefix(before.warnings, warnings)

\* C3: on a fresh validator validate_all returns True exactly when no error
\* was recorded, main exits with 0 exactly then and with 1 otherwise, every
\* check returns False iff it appended an error, and warnings do not count.
C3_ExitStatusIffNoErrors ==
    /\ \A j \in 1..Len(trace) :
          ~trace[j].raised => (trace[j].ret <=> trace[j].errs = <<>>)
    /\ Returned /\ calls = 1 => (result <=> errors = <<>>)
    /\ pc = "exited" =>
          /\ exitStatus \in {0, 1}
          /\ exitStatus = 0 <=> errors = <<>>
    /\ pc # "exited" => exitStatus = -1

\* main exits with 0 although warnings were recorded
C3_Witness == pc = "exited" /\ exitStatus = 0 /\ warnings # <<>>

RECURSIVE NonTextualTitles(_)
RECURSIVE NonTextualTitlesOfEntries(_)
NonTextualTitlesOfEntries(entries) ==
    IF entries = <<>> THEN 0
    ELSE LET e == Head(entries)
         IN (IF e.title.text THEN 0 ELSE 1)
            + (IF e.content.kind = "list" THEN NonTextualTitles(e.content.items) ELSE 0)
            + NonTextualTitlesOfEntries(Tail(entries))

\* the number of non-textual keys of a manifest, at any depth
NonTextualTitles(items) ==
    IF items = <<>> THEN 0
    ELSE (IF Head(items).kind = "dict"
          THEN NonTextualTitlesOfEntries(Head(items).entries) ELSE 0)
         + NonTextualTitles(Tail(items))

IsInvalidTitle(e) == e.msg = "Invalid navigation title"

\* C4: validate_navigation appends one 'Invalid navigation title' error for
\* every non-textual key of the manifest, at any depth and any top-level
\* position, and returns False iff there is such a key.
C4_EveryTitleVerified ==
    Ran(5) =>
       /\ CountIf(trace[5].errs, IsInvalidTitle) = NonTextualTitles(nav)
       /\ trace[5].ret <=> NonTextualTitles(nav) = 0

RECURSIVE LeafPaths(_)
RECURSIVE LeafPathsOfEntries(_)
LeafPathsOfEntries(entries) ==
    IF entries = <<>> THEN <<>>
    ELSE LET e == Head(entries)
         IN (IF e.content.kind = "list" THEN LeafPaths(e.content.items)
             ELSE <<e.content.path>>)
            \o LeafPathsOfEntries(Tail(entries))

\* the file paths of the leaves (title -> path) of a manifest, in order
LeafPaths(items) ==
    IF items = <<>> THEN <<>>
    ELSE (IF Head(items).kind = "dict"
          THEN LeafPathsOfEntries(Head(items).entries) ELSE <<>>)
         \o LeafPaths(Tail(items))

IsMissing(p) == p \notin fs

\* C5: check_files_exist appends exactly one 'Missing file' error, naming
\* the path under the documentation root, per leaf whose file is missing
\* (at any depth), none for a leaf whose file exists, and returns True iff
\* it appended none.
C5_OneErrorPerMissingLeaf ==
    Ran(1) =>
       LET missing == SelectSeq(LeafPaths(nav), IsMissing)
       IN /\ Len(trace[1].errs) = Len(missing)
          /\ \A k \in 1..Len(missing) :
                trace[1].errs[k] = Err("Missing file", "docs", missing[k])
          /\ trace[1].ret <=> Len(missing) = 0

\* a nested leaf is missing while a top-level leaf exists
C5_Witness ==
    /\ Ran(1)
    /\ Len(nav) = 2
    /\ nav[1].kind = "dict" /\ nav[1].entries[1].content.kind = "list"
    /\ nav[2].kind = "dict" /\ nav[2].entries[1].content.kind = "path"
    /\ nav[2].entries[1].content.path \in fs
    /\ Len(trace[1].errs) = 2
    /\ ~trace[1].ret

\* the headings of md that skip a level versus the heading before them
SkipsAfterPrevious(md) ==
    {i \in 2..Len(md.headings) : md.headings[i] - md.headings[i - 1] > 1}

\* ... and the first heading when it is deeper than level 1
SkipsFromTop(md) ==
    {i \in 1..Len(md.headings) :
        md.headings[i] - (IF i = 1 THEN 0 ELSE md.headings[i - 1]) > 1}

WarnedHeadings(md) ==
    {i \in 1..Len(md.headings) :
        \E k \in 1..Len(trace[7].warns) :
            trace[7].warns[k] = Err("Skipped heading level", md.name, i)}

HeadingsNeverFail ==
    /\ Len(trace[7].errs) = Cardinality({f \in 1..Len(files) : ~files[f].renders})
    /\ trace[7].ret <=> \A f \in 1..Len(files) : files[f].renders

\* C6 as stated: a heading gets a warning exactly when its level exceeds
\* the level of the previous heading of the same file by more than one.
C6_WarningIffSkipsPrevious ==
    Ran(7) =>
       /\ \A f \in 1..Len(files) : WarnedHeadings(files[f]) = SkipsAfterPrevious(files[f])
       /\ HeadingsNeverFail

\* C6 amended: a heading gets exactly one warning when its level exceeds by
\* more than one the level of the previous heading of the same file, or,
\* for the first heading of a file, level 0; otherwise none.  Headings
\* never append an error and never make the check return False.
C6_WarningIffSkipsFromTop ==
    Ran(7) =>
       /\ \A f \in 1..Len(files) : WarnedHeadings(files[f]) = SkipsFromTop(files[f])
       /\ Len(trace[7].warns) =
             Cardinality({x \in (1..Len(files)) \X (1..MaxHeadings + 1) :
                            x[2] \in SkipsFromTop(files[x[1]])})
       /\ HeadingsNeverFail

\* a file whose headings go 1, 3 and a later file that starts at level 2
C6_Witness ==
    /\ Ran(7)
    /\ pc = "exited" /\ exitStatus = 0
    /\ Len(files) = 2
    /\ files[1].headings = <<3>>
    /\ files[2].headings = <<2>>
    /\ Len(trace[7].warns) = 2

(***************************************************************************)
(* Properties of DataProcessor                                             *)
(***************************************************************************)
KnownOperators == {"equals", "greater_than", "less_than"}

\* row satisfies condition c: its cell is present and stands in the
\* relation to the value
Satisfies(row, c) ==
    /\ ~row[c.column].na
    /\ \/ c.operator = "equals" /\ row[c.column].v = c.value
       \/ c.operator = "greater_than" /\ row[c.column].v > c.value
       \/ c.operator = "less_than" /\ row[c.column].v < c.value

Reorderings(s) ==
    {[i \in 1..Len(s) |-> s[f[i]]] :
        f \in {g \in [1..Len(s) -> 1..Len(s)] :
                 \A i, j \in 1..Len(s) : g[i] = g[j] => i = j}}

WellFormed(conditions, t) ==
    \A i \in 1..Len(conditions) :
        /\ conditions[i].operator \in KnownOperators
        /\ conditions[i].column \in ColumnsOf(t)

Filtered == lastCall.op = "filter_data"

C8_FilterDoesNotMutate ==
    Filtered =>
       /\ data = lastCall.before
       /\ lastCall.out.status = "ok" => lastCall.out.id # SelfId

\* the empty condition list on a table with rows
C8_Witness ==
    /\ Filtered
    /\ lastCall.conditions = <<>>
    /\ lastCall.before.rows # <<>>
    /\ lastCall.out.status = "ok"
    /\ lastCall.out.table = data

RECURSIVE IsSubsequence(_, _)
IsSubsequence(s, t) ==
    IF s = <<>> THEN TRUE
    ELSE IF t = <<>> THEN FALSE
    ELSE IF Head(s) = Head(t) THEN IsSubsequence(Tail(s), Tail(t))
    ELSE IsSubsequence(s, Tail(t))

\* C9: clean_data is idempotent; after it no row has a missing value, no two
\* rows are equal, the rows are rows of the table before in their original
\* order, and the columns are those of the table before.
C9_CleanIsIdempotent ==
    lastCall.op = "clean_data" =>
       /\ clean_data(data) = data
       /\ \A i \in 1..Len(data.rows) : ~HasMissing(data.rows[i])
       /\ \A i, j \in 1..Len(data.rows) : data.rows[i] = data.rows[j] => i = j
       /\ IsSubsequence(data.rows, lastCall.before.rows)
       /\ data.cols = lastCall.before.cols

\* a table of two equal rows is cleaned to one row
C9_Witness ==
    /\ lastCall.op = "clean_data"
    /\ Len(lastCall.before.rows) = 2
    /\ lastCall.before.rows[1] = lastCall.before.rows[2]
    /\ Len(data.rows) = 1

\* C10: filter_data fails with ValueError whenever some condition has an
\* unknown operator, whatever the other conditions and the rows are, and
\* calculate_statistics fails with ValueError whenever the column is absent.
C10_InvalidInputIsValueError ==
    /\ Filtered /\ (\E i \in 1..Len(lastCall.conditions) :
                       lastCall.conditions[i].operator \notin KnownOperators)
          => lastCall.out.status = "ValueError"
    /\ lastCall.op = "calculate_statistics"
          => (lastCall.out.status = "ValueError"
                 <=> lastCall.column \notin ColumnsOf(lastCall.before))

====
